---------------------------- MODULE Spec2Model ----------------------------
(***************************************************************************)
(* A model of src/main.py: the interactive orphan cleaner for Arch Linux.  *)
(*                                                                         *)
(* The program is a single sequential run.  Its state is the position in   *)
(* main(), the text written to the terminal, the commands handed to the    *)
(* shell, the three parsed package lists, the last answer read from the    *)
(* terminal and the exit status of the interpreter.  Whether pacman and    *)
(* expac are on the path is fixed when the run starts.  Everything else    *)
(* the environment decides (what a spawned process prints and returns,     *)
(* who runs the removal and whether sudo is found, what the user types,    *)
(* whether the user presses Ctrl-C) is a nondeterministic input of the     *)
(* step that reads it.                                                     *)
(*                                                                         *)
(* Spec is the run of main().  SpecPresenter applies print_list to any     *)
(* short sequence of records, SpecConfirm starts at the confirmation       *)
(* prompt and lets the user type any short text.                           *)
(*                                                                         *)
(* Text is modelled at two levels.  The answer typed at the confirmation   *)
(* prompt is a sequence of characters, because confirm() trims and         *)
(* lower-cases it.  Every other text (titles, messages, package names) is  *)
(* an atomic string.  An output line of a query is the sequence of its     *)
(* ";"-separated fields, i.e. what line.split(";") returns.                *)
(***************************************************************************)
EXTENDS Integers, Sequences, FiniteSets, TLC

VARIABLES
    pc,         \* position in main(), or the way the run ended
    out,        \* the lines written to the terminal so far
    exitCode,   \* exit status of the interpreter, -1 while it runs
    spawned,    \* the commands given to subprocess.run, in order
    proc,       \* the last completed process: [rc, stdout, stderr]
    native,     \* main's local `native`
    foreign,    \* main's local `foreign`
    orphans,    \* main's local `orphans`
    answer,     \* what input() produced at the confirmation prompt
    euid,       \* os.geteuid() as read by remove_orphans, -1 before
    sudo,       \* shutil.which("sudo") as read by remove_orphans
    hasPacman,  \* whether shutil.which("pacman") finds the tool
    hasExpac,   \* whether shutil.which("expac") finds the tool
    title,      \* presenter check: the title handed to print_list
    items       \* presenter check: the records handed to print_list

vars == <<pc, out, exitCode, spawned, proc, native, foreign, orphans,
          answer, euid, sudo, hasPacman, hasExpac, title, items>>

-----------------------------------------------------------------------------
(* Bounds of the model.                                                    *)

\* Most lines a package query prints.
MaxPkgs == 2

\* Most records handed to print_list in the presenter check.
MaxItems == 3

\* Most characters typed at the confirmation prompt in the prompt check.
MaxAnswerLen == 3

-----------------------------------------------------------------------------
(* Terminal lines.  Every line has the same shape so that lines compare.   *)

Line(k, t, num, dt, d, nm) ==
    [kind |-> k, text |-> t, n |-> num, date |-> dt, desc |-> d, names |-> nm]

Text(s) == Line("text", s, 0, <<>>, "", <<>>)

\* print("=" * len(title))
Rule(len) == Line("rule", "=", len, <<>>, "", <<>>)

\* print(f"{i:3d}. {date_str} {pk_str:50} {desc_str}")
Row(i, date_str, pk, d) == Line("row", pk, i, date_str, d, <<>>)

\* print(f"\nTotal: {len(items)}") writes an empty line and this one.
Total(cnt) == Line("total", "Total: ", cnt, <<>>, "", <<>>)

\* print(f"[error] {msg}")
ErrorLine(msg) == Line("error", msg, 0, <<>>, "", <<>>)

\* print(" ", " ".join(pkgs))
NamesLine(pkgs) == Line("names", " ", 0, <<>>, "", pkgs)

\* The interpreter's report of an exception nobody caught.
Traceback(exc) == Line("traceback", exc, 0, <<>>, "", <<>>)

\* input(prompt) writes the prompt.
Prompt(s) == Line("prompt", s, 0, <<>>, "", <<>>)

Contains(lines, l) == \E i \in 1..Len(lines) : lines[i] = l

RowCount(lines) == Cardinality({i \in 1..Len(lines) : lines[i].kind = "row"})

-----------------------------------------------------------------------------
(* Strings of the model and Python's order on them (by code point).        *)

StrOrder == <<"", "editor", "git", "lib-b", "lib-c", "lib-old", "paru",
              "vcs", "vim", "yay">>

StrRank(s) == CHOOSE i \in 1..Len(StrOrder) : StrOrder[i] = s

StrLess(a, b) == StrRank(a) < StrRank(b)

\* len(title) for the three titles main() uses.
StrLen(s) ==
    CASE s = "Explicitly installed packages (native repositories)" -> 51
      [] s = "Explicitly installed packages (AUR/foreign)" -> 43
      [] s = "Orphan packages (unrequired dependencies)" -> 41

\* The sequences over S of length at most n.
SeqUpTo(S, n) == UNION {[1..k -> S] : k \in 0..n}

\* The sequences over S of length at most n without a repeated element.
DistinctSeqUpTo(S, n) ==
    {s \in SeqUpTo(S, n) : \A i, j \in 1..Len(s) : s[i] = s[j] => i = j}

-----------------------------------------------------------------------------
(* The environment's answers.                                              *)

\* Lines the three queries may print: the ";"-separated fields of each.
\* A description holding a ";" gives four fields; "2019-13-05" is no date.
NativeLines == { <<"git", "vcs", "2022-03-01">>,
                 <<"vim", "editor", "2021-01-01">>,
                 <<"paru", "", "2022-03-01">> }

ForeignLines == { <<"yay", "", "2023-07-15">>,
                  <<"yay", "vcs", "editor", "2023-07-15">> }

OrphanLines == { <<"lib-old", "", "2019-05-05">>,
                 <<"lib-b", "", "2019-05-05">>,
                 <<"lib-c", "", "2019-13-05">> }

\* What a failed process leaves on its error stream (already without
\* surrounding white space, so that e.stderr.strip() returns it unchanged).
StderrTexts == { "error: no targets specified (use -h for help)",
                 "error: failed to init transaction (unable to lock database)" }

ExitStatuses == {0, 1}

\* A completed process whose output lines are drawn from `lines`.
\* A failed one has written an error text; the program never reads the
\* error stream of a successful one.
Procs(lines) ==
    [rc : {0}, stdout : DistinctSeqUpTo(lines, MaxPkgs), stderr : {""}]
    \cup [rc : ExitStatuses \ {0}, stdout : DistinctSeqUpTo(lines, MaxPkgs),
          stderr : StderrTexts]

\* The process of a removal: the program does not read what it prints.
RemovalProcs == Procs({})

NoProc == [rc |-> 0, stdout |-> <<>>, stderr |-> ""]

\* os.geteuid(): root or an ordinary user.
Euids == {0, 1000}

\* shutil.which("sudo"): a path, or None.
None == "None"
SudoPaths == {"/usr/bin/sudo", None}

-----------------------------------------------------------------------------
(* fail and run.  A call's outcome is a record: exc is the exception that  *)
(* leaves the call ("none" when it returns), code the exit status of a     *)
(* SystemExit, printed the lines the call wrote.                           *)

fail(msg) == [exc |-> "SystemExit", code |-> 1, printed |-> <<ErrorLine(msg)>>]

\* The string given to the shell: expac formats the names `cmd` prints.
ShellCmd(cmd) ==
    [shell |-> <<"expac", "-t", "%Y-%m-%d", "%n;%d;%l">>, sub |-> cmd]

\* Variant of run: the exit status is not checked (check=False).
run_unchecked(cmd, p) == [exc |-> "none", code |-> 0, printed |-> <<>>, proc |-> p]

\* subprocess.run(..., check=True) raises CalledProcessError exactly on a
\* non-zero exit status; run() then prints the error text and fails.
run(cmd, p) ==
    IF p.rc # 0
    THEN LET f == fail("command failed")
         IN  [exc |-> f.exc, code |-> f.code,
              printed |-> <<Text(p.stderr)>> \o f.printed, proc |-> p]
    ELSE [exc |-> "none", code |-> 0, printed |-> <<>>, proc |-> p]

\* Variant of ensure_arch_like: only pacman is looked for.
ensure_arch_like_pacman_only(pacmanFound, expacFound) ==
    IF ~pacmanFound
    THEN fail("pacman not found. This script is for Arch Linux and derivatives.")
    ELSE [exc |-> "none", code |-> 0, printed |-> <<>>]

\* pacmanFound, expacFound: whether shutil.which finds the tool.
ensure_arch_like(pacmanFound, expacFound) ==
    IF ~pacmanFound
    THEN fail("pacman not found. This script is for Arch Linux and derivatives.")
    ELSE IF ~expacFound
    THEN fail("expac not found. It shoud be installed as a mandatory dependency.")
    ELSE [exc |-> "none", code |-> 0, printed |-> <<>>]

-----------------------------------------------------------------------------
(* Parsing.                                                                *)

\* datetime.date.fromisoformat: <<year, month, day>>, or <<>> for a text
\* that is no ISO date (the call raises ValueError).
fromisoformat(s) ==
    CASE s = "2022-03-01" -> <<2022, 3, 1>>
      [] s = "2021-01-01" -> <<2021, 1, 1>>
      [] s = "2023-07-15" -> <<2023, 7, 15>>
      [] s = "2019-05-05" -> <<2019, 5, 5>>
      [] OTHER -> <<>>

\* pk, desc, date = line.split(";") needs exactly three fields.
to_obj(line) ==
    IF Len(line) # 3
    THEN [exc |-> "ValueError", value |-> <<>>]
    ELSE IF fromisoformat(line[3]) = <<>>
    THEN [exc |-> "ValueError", value |-> <<>>]
    ELSE [exc |-> "none", value |-> <<line[1], line[2], fromisoformat(line[3])>>]

\* [to_obj(l) for l in stdout.strip().splitlines()]
to_objs(lines) ==
    IF \E i \in 1..Len(lines) : to_obj(lines[i]).exc # "none"
    THEN [exc |-> "ValueError", value |-> <<>>]
    ELSE [exc |-> "none", value |-> [i \in 1..Len(lines) |-> to_obj(lines[i]).value]]

NativeCmd == <<"pacman", "-Qqen">>
ForeignCmd == <<"pacman", "-Qqem">>
OrphanCmd == <<"pacman", "-Qqtd">>

\* One of the two statements of list_explicit_packages: run, then parse.
list_explicit(cmd, p) ==
    LET r == run(cmd, p)
    IN  IF r.exc # "none"
        THEN [exc |-> r.exc, code |-> r.code, printed |-> r.printed, value |-> <<>>]
        ELSE LET v == to_objs(r.proc.stdout)
             IN  [exc |-> v.exc, code |-> 1, printed |-> <<>>, value |-> v.value]

list_orphans(p) ==
    LET r == run(OrphanCmd, p)
    IN  IF r.exc # "none"
        THEN [exc |-> r.exc, code |-> r.code, printed |-> r.printed, value |-> <<>>]
        ELSE IF r.proc.rc # 0
        THEN [exc |-> "none", code |-> 0, printed |-> <<>>, value |-> <<>>]
        ELSE LET v == to_objs(r.proc.stdout)
             IN  [exc |-> v.exc, code |-> 1, printed |-> <<>>, value |-> v.value]


-----------------------------------------------------------------------------
(* The presenter.                                                          *)

\* Python's order on the records: name, then description, then date.
DateLess(a, b) ==
    \/ a[1] < b[1]
    \/ a[1] = b[1] /\ a[2] < b[2]
    \/ a[1] = b[1] /\ a[2] = b[2] /\ a[3] < b[3]

ObjLess(a, b) ==
    \/ StrLess(a[1], b[1])
    \/ a[1] = b[1] /\ StrLess(a[2], b[2])
    \/ a[1] = b[1] /\ a[2] = b[2] /\ DateLess(a[3], b[3])

\* Insert x into the sorted sequence s, after the elements not greater.
RECURSIVE Insert(_, _)
Insert(x, s) ==
    IF s = <<>> THEN <<x>>
    ELSE IF ObjLess(x, Head(s)) THEN <<x>> \o s
    ELSE <<Head(s)>> \o Insert(x, Tail(s))

\* sorted(items): a stable sort, here by insertion from the left.
RECURSIVE sorted(_)
sorted(s) ==
    IF s = <<>> THEN <<>>
    ELSE Insert(s[Len(s)], sorted(SubSeq(s, 1, Len(s) - 1)))

MonthAbbr == <<"Jan", "Feb", "Mar", "Apr", "May", "Jun",
               "Jul", "Aug", "Sep", "Oct", "Nov", "Dec">>

\* date.strftime("%d %b. %Y"): day, abbreviated month, year.
strftime(date) == <<date[3], MonthAbbr[date[2]], date[1]>>

\* Variant of print_list: the total is the last index of a 0-based count.
print_list_miscount(ttl, its) ==
    LET header == <<Text(""), Text(ttl), Rule(StrLen(ttl))>>
        srt    == sorted(its)
    IN  IF its = <<>>
        THEN header \o <<Text("(none)")>>
        ELSE header
             \o [i \in 1..Len(srt) |->
                    Row(i, strftime(srt[i][3]), srt[i][1], srt[i][2])]
             \o <<Text(""), Total(Len(its) - 1)>>

\* The lines print_list writes.
print_list(ttl, its) ==
    LET header == <<Text(""), Text(ttl), Rule(StrLen(ttl))>>
        srt    == sorted(its)
    IN  IF its = <<>>
        THEN header \o <<Text("(none)")>>
        ELSE header
             \o [i \in 1..Len(srt) |->
                    Row(i, strftime(srt[i][3]), srt[i][1], srt[i][2])]
             \o <<Text(""), Total(Len(its))>>

-----------------------------------------------------------------------------
(* The confirmation prompt.  An answer is a sequence of characters.        *)

Spaces == {" ", "\t"}

\* str.lower() on one character of the model's alphabet.
LowerChar(c) ==
    CASE c = "Y" -> "y"
      [] c = "E" -> "e"
      [] c = "S" -> "s"
      [] c = "O" -> "o"
      [] c = "U" -> "u"
      [] c = "I" -> "i"
      [] c = "N" -> "n"
      [] OTHER -> c

lower(s) == [i \in 1..Len(s) |-> LowerChar(s[i])]

RECURSIVE lstrip(_)
lstrip(s) ==
    IF s # <<>> /\ Head(s) \in Spaces THEN lstrip(Tail(s)) ELSE s

RECURSIVE rstrip(_)
rstrip(s) ==
    IF s # <<>> /\ s[Len(s)] \in Spaces
    THEN rstrip(SubSeq(s, 1, Len(s) - 1))
    ELSE s

\* str.strip()
strip(s) == rstrip(lstrip(s))

\* {"y", "yes", "o", "oui"}
Affirmatives == { <<"y">>, <<"y", "e", "s">>, <<"o">>, <<"o", "u", "i">> }

\* What input() does: it returns the typed text, or raises EOFError.
Typed(s) == [asked |-> TRUE, eof |-> FALSE, text |-> s]
EndOfInput == [asked |-> TRUE, eof |-> TRUE, text |-> <<>>]
NotAsked == [asked |-> FALSE, eof |-> FALSE, text |-> <<>>]

\* Variant of confirm: the answer is not trimmed.
confirm_no_strip(inp) ==
    IF inp.eof THEN FALSE
    ELSE lower(inp.text) \in Affirmatives

\* Variant of confirm: "yes" is the default, as with a [Y/n] prompt.
confirm_default_yes(inp) ==
    IF inp.eof THEN TRUE
    ELSE lower(strip(inp.text)) \in Affirmatives \cup {<<>>}

confirm(inp) ==
    IF inp.eof THEN FALSE
    ELSE lower(strip(inp.text)) \in Affirmatives

ConfirmPrompt == "Do you want to remove them automatically using 'pacman -Rns'? [y/N]: "

-----------------------------------------------------------------------------
(* The removal.                                                            *)

RemoveCmd == <<"pacman", "-Rns", "--noconfirm">>

\* base_cmd, with sudo before it unless the process is root.
removal_cmd(pkgs, uid, sudoPath) ==
    IF uid # 0 THEN <<sudoPath>> \o RemoveCmd \o pkgs ELSE RemoveCmd \o pkgs

\* Variant of remove_orphans: without root and without sudo the plain
\* command is tried.
remove_orphans_unprivileged(pkgs, uid, sudoPath, p) ==
    IF pkgs = <<>>
    THEN [exc |-> "none", code |-> 0, spawned |-> <<>>,
          printed |-> <<Text("No orphan packages to remove.")>>]
    ELSE LET cmd == IF uid # 0 /\ sudoPath # None
                    THEN <<sudoPath>> \o RemoveCmd \o pkgs
                    ELSE RemoveCmd \o pkgs
             r   == run(cmd, p)
         IN  [exc |-> r.exc, code |-> r.code, spawned |-> <<ShellCmd(cmd)>>,
              printed |-> <<Text(""), Text("Removing orphan packages:"),
                            NamesLine(pkgs), Text("")>> \o r.printed]

\* Variant of remove_orphans: a failed removal is reported and then ignored.
remove_orphans_swallow(pkgs, uid, sudoPath, p) ==
    IF pkgs = <<>>
    THEN [exc |-> "none", code |-> 0, spawned |-> <<>>,
          printed |-> <<Text("No orphan packages to remove.")>>]
    ELSE IF uid # 0 /\ sudoPath = None
    THEN LET f == fail("insufficient privileges and 'sudo' not found. Please run as root.")
         IN  [exc |-> f.exc, code |-> f.code, spawned |-> <<>>, printed |-> f.printed]
    ELSE LET cmd == removal_cmd(pkgs, uid, sudoPath)
             r   == run(cmd, p)
         IN  [exc |-> "none", code |-> 0, spawned |-> <<ShellCmd(cmd)>>,
              printed |-> <<Text(""), Text("Removing orphan packages:"),
                            NamesLine(pkgs), Text("")>> \o r.printed]

\* remove_orphans(pkgs) under effective user uid, with shutil.which("sudo")
\* = sudoPath and p the process the shell would complete with.  spawned
\* holds the command given to run(), if the call gets that far.
remove_orphans(pkgs, uid, sudoPath, p) ==
    IF pkgs = <<>>
    THEN [exc |-> "none", code |-> 0, spawned |-> <<>>,
          printed |-> <<Text("No orphan packages to remove.")>>]
    ELSE IF uid # 0 /\ sudoPath = None
    THEN LET f == fail("insufficient privileges and 'sudo' not found. Please run as root.")
         IN  [exc |-> f.exc, code |-> f.code, spawned |-> <<>>, printed |-> f.printed]
    ELSE LET cmd     == removal_cmd(pkgs, uid, sudoPath)
             banner  == <<Text(""), Text("Removing orphan packages:"),
                          NamesLine(pkgs), Text("")>>
             r       == run(cmd, p)
         IN  [exc |-> r.exc, code |-> r.code, spawned |-> <<ShellCmd(cmd)>>,
              printed |-> banner \o r.printed]

\* Variant of the name list: the wrong field of the record is taken.
pkg_names_desc(objs) == [i \in 1..Len(objs) |-> objs[i][2]]

\* [pkg for pkg, _, _ in orphans]
pkg_names(objs) == [i \in 1..Len(objs) |-> objs[i][1]]


-----------------------------------------------------------------------------
(* The run of main().                                                      *)

NativeTitle == "Explicitly installed packages (native repositories)"
ForeignTitle == "Explicitly installed packages (AUR/foreign)"
OrphanTitle == "Orphan packages (unrequired dependencies)"
PausePrompt == "Press Enter to detect orphan packages"

\* The answers typed at the confirmation prompt in a run of main().
Answers ==
    { <<"y">>, <<"Y">>, <<"y", "e", "s">>, <<"o", "u", "i">>, <<>>, <<"n">>,
      <<"n", "o">>, <<"m", "a", "y", "b", "e">>, <<"o">>,
      <<" ", "Y", "E", "S", "\t">>, <<"y", " ", "e", "s">> }

Inputs == {Typed(a) : a \in Answers} \cup {EndOfInput}

Running == {"probe", "native", "foreign", "pause", "orphans", "confirm", "remove"}

Init ==
    /\ pc = "probe"
    /\ out = <<>>
    /\ exitCode = -1
    /\ spawned = <<>>
    /\ proc = NoProc
    /\ native = <<>>
    /\ foreign = <<>>
    /\ orphans = <<>>
    /\ answer = NotAsked
    /\ euid = -1
    /\ sudo = None
    /\ hasPacman \in BOOLEAN
    /\ hasExpac \in BOOLEAN
    /\ title = ""
    /\ items = <<>>

\* An exception leaves main(): SystemExit ends the process with its code, any
\* other exception but KeyboardInterrupt with a traceback and status 1.
Raise(r) ==
    /\ pc' = IF r.exc = "SystemExit" THEN "failed" ELSE "crashed"
    /\ exitCode' = IF r.exc = "SystemExit" THEN r.code ELSE 1
    /\ out' = out \o r.printed
                  \o (IF r.exc = "SystemExit" THEN <<>> ELSE <<Traceback(r.exc)>>)

\* main() returns: the interpreter exits with status 0.
Return(printed) ==
    /\ pc' = "done"
    /\ exitCode' = 0
    /\ out' = out \o printed

\* ensure_arch_like(), then the first print of main().
Probe ==
    /\ pc = "probe"
    /\ LET r == ensure_arch_like(hasPacman, hasExpac)
       IN  IF r.exc = "none"
           THEN /\ pc' = "native"
                /\ out' = out \o <<Text("Checking pacman package database..."), Text("")>>
                /\ exitCode' = exitCode
           ELSE Raise(r)
    /\ UNCHANGED <<spawned, proc, native, foreign, orphans, answer, euid, sudo,
                   hasPacman, hasExpac, title, items>>

\* native = [to_obj(l) for l in run("pacman -Qqen")...]
QueryNative ==
    /\ pc = "native"
    /\ \E p \in Procs(NativeLines) :
         LET r == list_explicit(NativeCmd, p)
         IN  /\ spawned' = Append(spawned, ShellCmd(NativeCmd))
             /\ proc' = p
             /\ IF r.exc = "none"
                THEN /\ native' = r.value
                     /\ pc' = "foreign"
                     /\ UNCHANGED <<out, exitCode>>
                ELSE /\ Raise(r)
                     /\ UNCHANGED native
    /\ UNCHANGED <<foreign, orphans, answer, euid, sudo, hasPacman, hasExpac,
                   title, items>>

\* foreign = [...]; the two lists are printed and the pause prompt appears.
QueryForeign ==
    /\ pc = "foreign"
    /\ \E p \in Procs(ForeignLines) :
         LET r == list_explicit(ForeignCmd, p)
         IN  /\ spawned' = Append(spawned, ShellCmd(ForeignCmd))
             /\ proc' = p
             /\ IF r.exc = "none"
                THEN /\ foreign' = r.value
                     /\ pc' = "pause"
                     /\ out' = out \o print_list(NativeTitle, native)
                                   \o print_list(ForeignTitle, r.value)
                                   \o <<Text(""), Prompt(PausePrompt)>>
                     /\ UNCHANGED exitCode
                ELSE /\ Raise(r)
                     /\ UNCHANGED foreign
    /\ UNCHANGED <<native, orphans, answer, euid, sudo, hasPacman, hasExpac,
                   title, items>>

\* input("\nPress Enter to detect orphan packages"): any line goes on, the
\* end of the input raises EOFError, which nobody catches.
Pause ==
    /\ pc = "pause"
    /\ \E eof \in BOOLEAN :
         IF eof
         THEN Raise([exc |-> "EOFError", code |-> 1, printed |-> <<>>])
         ELSE pc' = "orphans" /\ UNCHANGED <<out, exitCode>>
    /\ UNCHANGED <<spawned, proc, native, foreign, orphans, answer, euid, sudo,
                   hasPacman, hasExpac, title, items>>

\* orphans = list_orphans(); print_list; the end or the confirmation prompt.
QueryOrphans ==
    /\ pc = "orphans"
    /\ \E p \in Procs(OrphanLines) :
         LET r == list_orphans(p)
         IN  /\ spawned' = Append(spawned, ShellCmd(OrphanCmd))
             /\ proc' = p
             /\ IF r.exc # "none"
                THEN /\ Raise(r)
                     /\ UNCHANGED orphans
                ELSE /\ orphans' = r.value
                     /\ IF r.value = <<>>
                        THEN Return(print_list(OrphanTitle, r.value)
                                    \o <<Text(""),
                                         Text("Nothing to clean. Your system has no orphans, congratulations.")>>)
                        ELSE /\ pc' = "confirm"
                             /\ out' = out \o print_list(OrphanTitle, r.value)
                                           \o <<Text(""), Prompt(ConfirmPrompt)>>
                             /\ UNCHANGED exitCode
    /\ UNCHANGED <<native, foreign, answer, euid, sudo, hasPacman, hasExpac,
                   title, items>>

\* if confirm(...): ... else: print("\nNo removal performed.")
ConfirmStep(inputs) ==
    /\ pc = "confirm"
    /\ \E inp \in inputs :
         /\ answer' = inp
         /\ IF confirm(inp)
            THEN pc' = "remove" /\ UNCHANGED <<out, exitCode>>
            ELSE Return(<<Text(""), Text("No removal performed.")>>)
    /\ UNCHANGED <<spawned, proc, native, foreign, orphans, euid, sudo,
                   hasPacman, hasExpac, title, items>>

Confirm == ConfirmStep(Inputs)

\* remove_orphans([pkg for pkg, _, _ in orphans])
Remove ==
    /\ pc = "remove"
    /\ \E uid \in Euids, sp \in SudoPaths, p \in RemovalProcs :
         LET r == remove_orphans(pkg_names(orphans), uid, sp, p)
         IN  /\ euid' = uid
             /\ sudo' = IF uid # 0 THEN sp ELSE sudo
             /\ spawned' = spawned \o r.spawned
             /\ proc' = IF r.spawned # <<>> THEN p ELSE proc
             /\ IF r.exc = "none" THEN Return(r.printed) ELSE Raise(r)
    /\ UNCHANGED <<native, foreign, orphans, answer, hasPacman, hasExpac,
                   title, items>>

\* Variant of the handler: the message, then the interrupt is raised again.
on_KeyboardInterrupt_reraise ==
    [code |-> 130, printed |-> <<Text(""), Text("Interrupted by user."),
                                 Traceback("KeyboardInterrupt")>>]

\* except KeyboardInterrupt: print("\nInterrupted by user."); the module
\* ends and the interpreter exits with status 0.
on_KeyboardInterrupt ==
    [code |-> 0, printed |-> <<Text(""), Text("Interrupted by user.")>>]

\* The commands a step may have given to the shell when Ctrl-C arrives in it.
SpawnedWhenInterrupted ==
    CASE pc = "native"  -> {<<>>, <<ShellCmd(NativeCmd)>>}
      [] pc = "foreign" -> {<<>>, <<ShellCmd(ForeignCmd)>>}
      [] pc = "orphans" -> {<<>>, <<ShellCmd(OrphanCmd)>>}
      [] pc = "remove"  ->
            {<<>>} \cup {remove_orphans(pkg_names(orphans), uid, sp, NoProc).spawned :
                            uid \in Euids, sp \in SudoPaths}
      [] OTHER -> {<<>>}

\* Ctrl-C while main() runs: KeyboardInterrupt reaches the handler.
Interrupt ==
    /\ pc \in Running
    /\ \E cmds \in SpawnedWhenInterrupted : spawned' = spawned \o cmds
    /\ pc' = "interrupted"
    /\ exitCode' = on_KeyboardInterrupt.code
    /\ out' = out \o on_KeyboardInterrupt.printed
    /\ UNCHANGED <<proc, native, foreign, orphans, answer, euid, sudo,
                   hasPacman, hasExpac, title, items>>

Next ==
    \/ Probe
    \/ QueryNative
    \/ QueryForeign
    \/ Pause
    \/ QueryOrphans
    \/ Confirm
    \/ Remove
    \/ Interrupt

Spec == Init /\ [][Next]_vars


-----------------------------------------------------------------------------
(* The presenter on its own: print_list applied to any title of main() and *)
(* any sequence of records the parser can produce.                         *)

Titles == {NativeTitle, ForeignTitle, OrphanTitle}

Records ==
    {to_obj(l).value : l \in {x \in NativeLines \cup ForeignLines \cup OrphanLines :
                                 to_obj(x).exc = "none"}}

InitPresenter ==
    /\ pc = "print_list"
    /\ out = <<>>
    /\ exitCode = -1
    /\ spawned = <<>>
    /\ proc = NoProc
    /\ native = <<>>
    /\ foreign = <<>>
    /\ orphans = <<>>
    /\ answer = NotAsked
    /\ euid = -1
    /\ sudo = None
    /\ hasPacman = TRUE
    /\ hasExpac = TRUE
    /\ title \in Titles
    /\ items \in SeqUpTo(Records, MaxItems)

Present ==
    /\ pc = "print_list"
    /\ out' = out \o print_list(title, items)
    /\ pc' = "printed"
    /\ UNCHANGED <<exitCode, spawned, proc, native, foreign, orphans, answer,
                   euid, sudo, hasPacman, hasExpac, title, items>>

NextPresenter == Present

SpecPresenter == InitPresenter /\ [][NextPresenter]_vars

-----------------------------------------------------------------------------
(* The confirmation prompt on its own: the run stands at the prompt, with  *)
(* one native package, no foreign one and one orphan, and the user may     *)
(* type any short text over a small alphabet.                              *)

ScenarioNativeLine == <<"git", "vcs", "2022-03-01">>
ScenarioOrphanLine == <<"lib-old", "", "2019-05-05">>

AtConfirmPrompt ==
    /\ pc = "confirm"
    /\ hasPacman = TRUE
    /\ hasExpac = TRUE
    /\ native = to_objs(<<ScenarioNativeLine>>).value
    /\ foreign = <<>>
    /\ orphans = to_objs(<<ScenarioOrphanLine>>).value
    /\ out = <<Text("Checking pacman package database..."), Text("")>>
             \o print_list(NativeTitle, native)
             \o print_list(ForeignTitle, foreign)
             \o <<Text(""), Prompt(PausePrompt)>>
             \o print_list(OrphanTitle, orphans)
             \o <<Text(""), Prompt(ConfirmPrompt)>>
    /\ exitCode = -1
    /\ spawned = <<ShellCmd(NativeCmd), ShellCmd(ForeignCmd), ShellCmd(OrphanCmd)>>
    /\ proc = [rc |-> 0, stdout |-> <<ScenarioOrphanLine>>, stderr |-> ""]
    /\ answer = NotAsked
    /\ euid = -1
    /\ sudo = None
    /\ title = ""
    /\ items = <<>>

Chars == {"y", "Y", "e", "s", "o", " "}

AllInputs ==
    {Typed(a) : a \in SeqUpTo(Chars, MaxAnswerLen) \cup Answers} \cup {EndOfInput}

ConfirmAny == ConfirmStep(AllInputs)

NextConfirm ==
    \/ ConfirmAny
    \/ Remove
    \/ Interrupt

SpecConfirm == AtConfirmPrompt /\ [][NextConfirm]_vars


-----------------------------------------------------------------------------
(* Vocabulary of the properties.                                           *)

IsRemoval(c) == \E k \in 1..Len(c.sub) : c.sub[k] = "-Rns"

RemovalSpawned == \E i \in 1..Len(spawned) : IsRemoval(spawned[i])

\* The package names of a removal command: what follows "--noconfirm".
RemovalArgs(c) ==
    LET k == CHOOSE j \in 1..Len(c.sub) : c.sub[j] = "--noconfirm"
    IN  SubSeq(c.sub, k + 1, Len(c.sub))

Elems(seq) == {seq[i] : i \in 1..Len(seq)}

HasKind(lines, k) == \E i \in 1..Len(lines) : lines[i].kind = k

EndsWith(lines, tail) ==
    /\ Len(lines) >= Len(tail)
    /\ SubSeq(lines, Len(lines) - Len(tail) + 1, Len(lines)) = tail

\* The upper-case form of a letter of the affirmative words.
UpperOf(c) ==
    CASE c = "y" -> "Y"
      [] c = "e" -> "E"
      [] c = "s" -> "S"
      [] c = "o" -> "O"
      [] c = "u" -> "U"
      [] c = "i" -> "I"

\* An affirmative answer, said without trimming or lower-casing: some white
\* space, one of the words y, yes, o, oui in any mix of cases, some white
\* space.
IsAffirmative(inp) ==
    /\ ~inp.eof
    /\ \E w \in { <<"y">>, <<"y", "e", "s">>, <<"o">>, <<"o", "u", "i">> } :
       \E lead \in 0..Len(inp.text) :
          /\ lead + Len(w) <= Len(inp.text)
          /\ \A k \in 1..lead : inp.text[k] \in Spaces
          /\ \A k \in 1..Len(w) : inp.text[lead + k] \in {w[k], UpperOf(w[k])}
          /\ \A k \in (lead + Len(w) + 1)..Len(inp.text) : inp.text[k] \in Spaces

Declined == EndsWith(out, <<Text(""), Text("No removal performed.")>>)

\* The orphan query has completed with a non-zero exit status.
OrphanQueryFailed ==
    /\ Len(spawned) = 3
    /\ spawned[3] = ShellCmd(OrphanCmd)
    /\ proc.rc # 0

\* The native or the foreign query has completed with a non-zero status.
ExplicitQueryFailed ==
    /\ Len(spawned) \in {1, 2}
    /\ proc.rc # 0

-----------------------------------------------------------------------------
(* The claims.                                                             *)

\* C1: whenever the orphan query ends with a non-zero exit status,
\* list_orphans returns the empty list and the run goes on: nothing is
\* reported as an error and the process does not exit with a failure.
C1_OrphanNonZeroIsEmpty ==
    OrphanQueryFailed =>
        /\ pc = "done"
        /\ exitCode = 0
        /\ orphans = <<>>
        /\ ~HasKind(out, "error")

\* C2: the removal command is spawned only once the orphan list has been
\* presented, the list is not empty and the answer was affirmative; after
\* any other answer, the end of the input included, the run prints "No
\* removal performed.", exits with status 0 and has spawned no removal.
C2_RemovalNeedsConsent ==
    /\ RemovalSpawned =>
          /\ Contains(out, Text(OrphanTitle))
          /\ orphans # <<>>
          /\ answer.asked
          /\ IsAffirmative(answer)
    /\ (answer.asked /\ ~IsAffirmative(answer)) =>
          /\ pc = "done"
          /\ exitCode = 0
          /\ Declined
          /\ ~RemovalSpawned

C2_Witness ==
    /\ pc = "done"
    /\ answer = EndOfInput
    /\ Declined
    /\ Len(orphans) = 2

\* C3 as stated: after an affirmative answer the run ends with status 0,
\* whether the removal succeeded or not.
C3_AlwaysExitsZero ==
    (answer.asked /\ IsAffirmative(answer) /\ pc \notin Running) => exitCode = 0

\* C3 as amended: after an affirmative answer remove_orphans is called, and
\* a run that is not interrupted ends with status 0 exactly when the
\* removal command was spawned and returned 0; otherwise (the command
\* returned non-zero, or the user is not root and sudo is missing) it ends
\* with status 1 after an "[error]" line.
C3_ExitFollowsRemoval ==
    (answer.asked /\ IsAffirmative(answer) /\ pc \notin Running \cup {"interrupted"}) =>
        /\ euid # -1
        /\ pc \in {"done", "failed"}
        /\ (pc = "done") <=> (RemovalSpawned /\ proc.rc = 0)
        /\ pc = "done" => exitCode = 0
        /\ pc = "failed" => exitCode = 1 /\ out[Len(out)].kind = "error"

C3_Witness ==
    /\ answer.asked
    /\ IsAffirmative(answer)
    /\ pc = "failed"
    /\ RemovalSpawned
    /\ proc.rc # 0

\* C4: a non-zero exit status of the native or the foreign query is fatal:
\* the error text of the process is printed, the run exits with status 1,
\* and nothing later happens: no list is presented, no prompt appears, no
\* further process is spawned.
C4_ExplicitQueryFailureIsFatal ==
    ExplicitQueryFailed =>
        /\ pc = "failed"
        /\ exitCode = 1
        /\ EndsWith(out, <<Text(proc.stderr), ErrorLine("command failed")>>)
        /\ ~HasKind(out, "rule")
        /\ ~HasKind(out, "row")
        /\ ~HasKind(out, "prompt")
        /\ \A i \in 1..Len(spawned) : spawned[i].sub \in {NativeCmd, ForeignCmd}
        /\ ~ENABLED Next

C4_Witness ==
    /\ Len(spawned) = 2
    /\ proc.rc # 0
    /\ pc = "failed"
    /\ native # <<>>

\* C5: Ctrl-C can arrive wherever the run stands (probe, a query, a prompt,
\* the removal); the run then prints "Interrupted by user.", shows no
\* traceback, exits with status 0 and does nothing more.
C5_InterruptExitsCleanly ==
    /\ pc \in Running => ENABLED Interrupt
    /\ pc = "interrupted" =>
          /\ exitCode = 0
          /\ EndsWith(out, <<Text(""), Text("Interrupted by user.")>>)
          /\ ~HasKind(out, "traceback")
          /\ ~ENABLED Next

C5_Witness ==
    /\ pc = "interrupted"
    /\ answer.asked
    /\ RemovalSpawned

\* C6: with pacman or expac missing the run prints one diagnostic and exits
\* with status 1 before any process is spawned or any prompt shown; with
\* both present the probe prints nothing, spawns nothing and the run stands
\* at the first package query.
C6_ProbeIsFatalOrSilent ==
    /\ (~hasPacman \/ ~hasExpac) =>
          /\ pc \in {"probe", "failed", "interrupted"}
          /\ spawned = <<>>
          /\ ~HasKind(out, "prompt")
          /\ pc = "failed" =>
                /\ exitCode = 1
                /\ Len(out) = 1
                /\ out[1].kind = "error"
    /\ (hasPacman /\ hasExpac) =>
          /\ pc = "native" =>
                /\ out = <<Text("Checking pacman package database..."), Text("")>>
                /\ spawned = <<>>
                /\ exitCode = -1
          /\ pc = "failed" => spawned # <<>>

C6_Witness ==
    /\ hasPacman
    /\ ~hasExpac
    /\ pc = "failed"

\* C7: remove_orphans on a non-empty list: not root and sudo found, the
\* spawned command is sudo followed by the removal command; not root and no
\* sudo, the run fails with a diagnostic and status 1 and no removal command
\* is spawned at all; root, the removal command is spawned as it is.
C7_RemovalPrivileges ==
    (euid # -1 /\ pc # "interrupted") =>
        /\ orphans # <<>>
        /\ (euid # 0 /\ sudo # None) =>
              /\ Len(spawned) = 4
              /\ spawned[4].sub = <<sudo>> \o RemoveCmd \o RemovalArgs(spawned[4])
        /\ (euid # 0 /\ sudo = None) =>
              /\ pc = "failed"
              /\ exitCode = 1
              /\ out[Len(out)].kind = "error"
              /\ ~RemovalSpawned
              /\ Len(spawned) = 3
        /\ euid = 0 =>
              /\ Len(spawned) = 4
              /\ spawned[4].sub = RemoveCmd \o RemovalArgs(spawned[4])

C7_Witness ==
    /\ euid = 1000
    /\ sudo = None
    /\ pc = "failed"
    /\ answer.asked

\* C8 as stated: for every record sequence, the empty one included, the
\* output of print_list ends with the line "Total: N", N the number of
\* records; for the empty sequence it also holds "(none)" and no row.
C8_AlwaysEndsWithTotal ==
    pc = "printed" =>
        /\ out[Len(out)] = Total(Len(items))
        /\ items = <<>> => Contains(out, Text("(none)")) /\ RowCount(out) = 0

\* C8 as amended: for every non-empty record sequence the output of
\* print_list ends with the line "Total: N", N the number of records; for
\* the empty sequence it ends with "(none)", and holds no row and no total.
C8_TotalUnlessEmpty ==
    pc = "printed" =>
        /\ items # <<>> => out[Len(out)] = Total(Len(items))
        /\ items = <<>> =>
              /\ out[Len(out)] = Text("(none)")
              /\ RowCount(out) = 0
              /\ ~HasKind(out, "total")

C8_Witness ==
    /\ pc = "printed"
    /\ Len(items) = 2
    /\ out[Len(out)] = Total(2)
    /\ RowCount(out) = 2

\* C9: "y", "Y", "yes", "oui" are taken as yes and "", "n", "no", "maybe"
\* as no; in general the answer is taken as yes exactly when, white space
\* around it and case aside, it is one of the affirmative words; the end of
\* the input is taken as no.
C9_ConfirmParsing ==
    answer.asked =>
        /\ Declined <=> ~IsAffirmative(answer)
        /\ (~answer.eof /\ answer.text \in { <<"y">>, <<"Y">>, <<"y", "e", "s">>,
                                              <<"o", "u", "i">> }) => ~Declined
        /\ (~answer.eof /\ answer.text \in { <<>>, <<"n">>, <<"n", "o">>,
                                              <<"m", "a", "y", "b", "e">> }) => Declined
        /\ answer.eof => Declined
        /\ ~Declined => (pc = "remove" \/ euid # -1 \/ pc = "interrupted")

C9_Witness ==
    /\ answer = Typed(<<" ", "Y", " ">>)
    /\ pc = "remove"

\* C10: the names given to the removal command are exactly the names of the
\* records the one orphan query of the run returned, the records shown to
\* the user; no name of the native or the foreign list is among them; at
\* most one removal command is spawned in a run.
C10_RemovesExactlyTheOrphans ==
    /\ Cardinality({i \in 1..Len(spawned) : IsRemoval(spawned[i])}) <= 1
    /\ Cardinality({i \in 1..Len(spawned) : spawned[i] = ShellCmd(OrphanCmd)}) <= 1
    /\ \A i \in 1..Len(spawned) :
          IsRemoval(spawned[i]) =>
             LET passed == Elems(RemovalArgs(spawned[i]))
                 start  == CHOOSE j \in 1..Len(out) : out[j] = Text(OrphanTitle)
                 shown  == {out[j].text : j \in {k \in start..Len(out) : out[k].kind = "row"}}
             IN  /\ Contains(out, Text(OrphanTitle))
                 /\ passed = {orphans[k][1] : k \in 1..Len(orphans)}
                 /\ Len(RemovalArgs(spawned[i])) = Len(orphans)
                 /\ passed = shown
                 /\ passed \cap {native[k][1] : k \in 1..Len(native)} = {}
                 /\ passed \cap {foreign[k][1] : k \in 1..Len(foreign)} = {}

C10_Witness ==
    /\ RemovalSpawned
    /\ Len(orphans) = 2
    /\ native # <<>>
    /\ foreign # <<>>
    /\ pc = "done"


=============================================================================
